---- MODULE Spec2Model ----
(***************************************************************************)
(* Model of src/ml/tabular_classifier.py: the TabularClassifier singleton, *)
(* its lazy model loader, the feature mapper and predict().                *)
(*                                                                         *)
(* Every Python statement that reads or writes shared state (the class     *)
(* attributes _instance and _lock, the instance attributes) is one step of *)
(* the calling thread, so that every interleaving of the threads is a      *)
(* behaviour of the model.  An attribute that has not been assigned yet is  *)
(* "unset": reading it raises AttributeError.                              *)
(***************************************************************************)
EXTENDS Integers, Sequences, FiniteSets, TLC

\* Number of request threads.
NumThreads == 2

Threads == 1..NumThreads

\* The counters of the model count up to MaxCount and stay there.
MaxCount == 2
Count(n) == IF n < MaxCount THEN n + 1 ELSE n

VARIABLES
    instance,          \* TabularClassifier._instance: 0 is None, n > 0 the n-th object created
    created,           \* number of super().__new__(cls) calls made so far
    lock,              \* TabularClassifier._lock: 0 is free, t > 0 is held by thread t
    initialized,       \* self._initialized      "unset" | "False" | "True"
    models_loaded,     \* self._models_loaded    "unset" | "False" | "True"
    prediction_model,  \* self._prediction_model "unset" | "None" | "model"
    shap_explainer,    \* self._shap_explainer   "unset" | "None" | "explainer"
    prediction_model_path, \* self._prediction_model_path "unset" | "set"
    shap_explainer_path,   \* self._shap_explainer_path   "unset" | "set"
    clfDeserialized,   \* number of successful deserializations of the classifier artifact
    shapDeserialized,  \* number of successful deserializations of the explainer artifact
    pc,                \* pc[t]: the statement thread t executes next
    op,                \* op[t]: the public method thread t is running
    self,              \* self[t]: the instance thread t holds (0: none)
    io,                \* io[t]: what the running load found on disk
    exc,               \* exc[t]: the exception the running call has raised
    last,              \* how the latest completed ensure_loaded() call ended
    out,               \* out[t]: locals and return value of the running call
    raw_input,         \* the raw input mapping handed to the feature mapper
    mapped,            \* what _map_and_build_features returned for raw_input
    raw_other,         \* the raw input of another call of the feature mapper
    mapped_other,      \* what _map_and_build_features returned for raw_other
    attribution,       \* a call of _compute_attribute_weights: inputs and outcome
    request            \* request[t]: the predict_tabular() call thread t serves

vars == <<instance, created, lock, initialized, models_loaded, prediction_model,
          shap_explainer, prediction_model_path, shap_explainer_path,
          clfDeserialized, shapDeserialized, pc, op, self, io, exc, last, out,
          raw_input, mapped, raw_other, mapped_other, attribution, request>>

attrs == <<initialized, models_loaded, prediction_model, shap_explainer,
           prediction_model_path, shap_explainer_path>>
ghosts == <<clfDeserialized, shapDeserialized>>
\* the variables of the single-call specifications and of the boundary
\* function, untouched by the steps inside the classifier
pure == <<raw_input, mapped, raw_other, mapped_other, attribution, request>>
\* the variables of the threads and the singleton
lifecycle == <<instance, created, lock, attrs, ghosts, pc, op, self, io, exc, last, out>>

----------------------------------------------------------------------------
\* Exceptions: the Python type and the prefix of the message.
NoExc == [type |-> "none", msg |-> ""]
AttributeError == [type |-> "AttributeError", msg |-> "object has no attribute"]
\* line 109: raise FileNotFoundError("Prediction model not found at: ...")
MissingArtifact == [type |-> "FileNotFoundError", msg |-> "Prediction model not found"]
\* line 165: raise Exception(f"Model loading error: {str(e)}")
LoadFailure == [type |-> "Exception", msg |-> "Model loading error"]
\* line 212: raise Exception("Prediction model is not loaded. ...")
ModelNotLoaded == [type |-> "Exception", msg |-> "Prediction model is not loaded"]
\* what predict_proba raises, prediction_proba[1] on a result that is too
\* short, and what the lookup of feature_importances_ raises
ClassifierError == [type |-> "OtherError", msg |-> "predict_proba failed"]
IndexError == [type |-> "IndexError", msg |-> "index 1 is out of bounds"]
LookupFailure == [type |-> "OtherError", msg |-> "feature_importances_ failed"]
\* mutant: the exception is let through as it is
PredictHandler_Reraise(e) == e
\* lines 230-232: except Exception as e: raise Exception(f"Prediction error: {str(e)}")
PredictHandler(e) == [type |-> "Exception", msg |-> "Prediction error", cause |-> e.msg]

NoIo == [clf |-> "none", shap |-> "none"]
NoOut == [stage |-> "none"]

----------------------------------------------------------------------------
(* Python dicts keep insertion order: a dict is a sequence of <<key, value>> *)
(* pairs with pairwise distinct keys.                                      *)
DictKeys(d) == {d[i][1] : i \in 1..Len(d)}
HasKey(d, k) == k \in DictKeys(d)
IndexOfKey(d, k) == CHOOSE i \in 1..Len(d) : d[i][1] = k
\* d.get(k, default)
DictGet(d, k, default) == IF HasKey(d, k) THEN d[IndexOfKey(d, k)][2] ELSE default
\* d[k] = v: an existing key keeps its position, a new key goes last
DictSet(d, k, v) ==
    IF HasKey(d, k) THEN [d EXCEPT ![IndexOfKey(d, k)] = <<k, v>>]
    ELSE Append(d, <<k, v>>)

\* the entries of d in every order
Reorderings(d) ==
    LET n == Len(d)
        perms == {p \in [1..n -> 1..n] : \A i, j \in 1..n : p[i] = p[j] => i = j}
    IN {[i \in 1..n |-> d[p[i]]] : p \in perms}

\* lines 37-53
EXPECTED_FEATURES ==
    << "pl_orbper", "pl_orbsmax", "pl_eqt", "pl_insol", "pl_imppar",
       "pl_trandep", "pl_trandur", "pl_ratdor", "pl_ratror", "st_teff",
       "st_rad", "st_mass", "st_met", "st_logg", "sy_imag" >>

\* lines 56-63
ALLOWED_EXTRA_FIELDS ==
    {"sy_gmag", "sy_rmag", "sy_zmag", "sy_jmag", "sy_hmag", "sy_kmag"}

\* The keys a raw input may carry in the model: expected names, allowed
\* extras, and names the classifier does not know.
UnknownKeys == {"sy_vmag", "sy_dist", "kepmag", "ra"}
KnownKeys == {EXPECTED_FEATURES[i] : i \in 1..Len(EXPECTED_FEATURES)}
                 \cup ALLOWED_EXTRA_FIELDS
AllKeys == KnownKeys \cup UnknownKeys

\* k.startswith("sy_") and k.endswith("mag"), tabulated over AllKeys
StartsWithSy(k) == k \in ALLOWED_EXTRA_FIELDS \cup {"sy_imag", "sy_vmag", "sy_dist"}
EndsWithMag(k) == k \in ALLOWED_EXTRA_FIELDS \cup {"sy_imag", "sy_vmag", "kepmag"}

\* Python's None and math.nan; every other value is a number, kept opaque
None == "None"
NaN == "nan"

\* mutant: the null entries are not dropped
FilterNone_KeepsAll(input_data) == input_data
\* line 250: {k: v for k, v in input_data.items() if v is not None}
FilterNone(input_data) == SelectSeq(input_data, LAMBDA e : e[2] # None)
\* mutant: every key counts as a magnitude-band alias
SyMags_EveryKey(filtered) == filtered
\* lines 253-257
SyMags(filtered) == SelectSeq(filtered, LAMBDA e : StartsWithSy(e[1]) /\ EndsWithMag(e[1]))
\* mutant: the last alias wins, also over the canonical name
ResolveSyImag_LastAlias(filtered) ==
    LET sy_mags == SyMags(filtered) IN
    IF Len(sy_mags) > 0 THEN DictSet(filtered, "sy_imag", sy_mags[Len(sy_mags)][2])
    ELSE filtered
\* mutant: an alias is preferred to the canonical name
ResolveSyImag_AliasPreferred(filtered) ==
    LET others == SelectSeq(SyMags(filtered), LAMBDA e : e[1] # "sy_imag") IN
    IF Len(others) > 0 THEN DictSet(filtered, "sy_imag", others[1][2])
    ELSE filtered
\* lines 258-261; next(iter(sy_mags.values())) is the first value in insertion order
ResolveSyImag(filtered) ==
    LET sy_mags == SyMags(filtered) IN
    IF HasKey(sy_mags, "sy_imag") THEN DictSet(filtered, "sy_imag", DictGet(sy_mags, "sy_imag", NaN))
    ELSE IF Len(sy_mags) > 0 THEN DictSet(filtered, "sy_imag", sy_mags[1][2])
    ELSE filtered
\* lines 244-264: returns <<values, names>>
MapAndBuildFeatures(input_data) ==
    LET filtered == ResolveSyImag(FilterNone(input_data)) IN
    << [i \in 1..Len(EXPECTED_FEATURES) |-> DictGet(filtered, EXPECTED_FEATURES[i], NaN)],
       EXPECTED_FEATURES >>

----------------------------------------------------------------------------
(* Attribution values as the explainer or the classifier hand them over:   *)
(* <<"num", n>> is the number n, <<"nan", 0>> is not-a-number, and         *)
(* <<"bad", 0>> is an object float() raises on.  A weight, the result of   *)
(* float(), is a number or not-a-number.                                   *)
Num(n) == <<"num", n>>
NanValue == <<"nan", 0>>
BadValue == <<"bad", 0>>
Abs(n) == IF n < 0 THEN -n ELSE n

\* dict(sorted(local.items(), key=lambda x: abs(x[1]), reverse=True)) for
\* weights that are all numbers: Python's sort is stable, also with reverse=True
RECURSIVE InsertByAbsDesc(_, _)
InsertByAbsDesc(sorted, e) ==
    IF sorted = << >> THEN <<e>>
    ELSE IF Abs(Head(sorted)[2][2]) >= Abs(e[2][2])
         THEN <<Head(sorted)>> \o InsertByAbsDesc(Tail(sorted), e)
         ELSE <<e>> \o sorted
RECURSIVE SortByAbsDesc(_)
SortByAbsDesc(items) ==
    IF items = << >> THEN << >>
    ELSE InsertByAbsDesc(SortByAbsDesc(SubSeq(items, 1, Len(items) - 1)), items[Len(items)])
\* The orders sorted() can leave the entries in.  abs(nan) compares False
\* with every key, so with a not-a-number weight the order is whatever the
\* sort algorithm happens to produce: any order of the entries.
SortedOutcomes(items) ==
    IF \E i \in 1..Len(items) : items[i][2] = NanValue THEN Reorderings(items)
    ELSE {SortByAbsDesc(items)}

\* What self._shap_explainer.shap_values([feature_values]) does (line 273):
\*   [kind |-> "raise", data |-> << >>]    it raises
\*   [kind |-> "list",  data |-> arrays]   a Python list, one array per class
\*   [kind |-> "array", data |-> rows]     one array, not a list
\*   [kind |-> "flat",  data |-> row]      one array of one dimension
\* An array is a sequence of rows (one per sample), a row a sequence of values.
\* mutant: the first array of the list is taken
ShapRow_FirstArray(shapOut) ==
    IF shapOut.kind \in {"raise", "flat"} THEN <<"raise", << >> >>
    ELSE LET arr == IF shapOut.kind = "list"
                    THEN IF Len(shapOut.data) > 0 THEN shapOut.data[1] ELSE << >>
                    ELSE shapOut.data
         IN IF Len(arr) = 0 THEN <<"raise", << >> >> ELSE <<"ok", arr[1]>>
\* lines 274-277, then shap_values[0] with its len() at line 281: IndexError
\* on an empty list or array, TypeError on the len() of a scalar
ShapRow(shapOut) ==
    LET arr == IF shapOut.kind = "list"
               THEN IF Len(shapOut.data) > 1 THEN <<"ok", shapOut.data[2]>>
                    ELSE IF Len(shapOut.data) = 1 THEN <<"ok", shapOut.data[1]>>
                    ELSE <<"raise", << >> >>
               ELSE <<"ok", shapOut.data>>
    IN IF shapOut.kind \in {"raise", "flat"} \/ arr[1] = "raise" THEN <<"raise", << >> >>
       ELSE IF Len(arr[2]) = 0 THEN <<"raise", << >> >>
       ELSE <<"ok", arr[2][1]>>
\* lines 282-287: float(), not-a-number and failures become 0.0
ShapFloat(v) == IF v[1] = "num" THEN v ELSE Num(0)
\* lines 279-288: names beyond the end of the row get no entry
ShapLocal(row, feature_names) ==
    LET n == IF Len(row) < Len(feature_names) THEN Len(row) ELSE Len(feature_names)
    IN [i \in 1..n |-> <<feature_names[i], ShapFloat(row[i])>>]
\* lines 271-294: <<"ok", results>> with the mappings the tier can return, or
\* <<"skip", {}>> when there is no explainer or the tier raised (line 293)
ExplainerTier(explainer, shapOut, feature_names) ==
    IF explainer = None THEN <<"skip", {}>>
    ELSE LET row == ShapRow(shapOut) IN
         IF row[1] = "raise" THEN <<"skip", {}>>
         ELSE <<"ok", SortedOutcomes(ShapLocal(row[2], feature_names))>>
\* What the classifier does when asked for feature_importances_:
\*   [kind |-> "absent", vals |-> << >>]       no such attribute: hasattr() is False
\*   [kind |-> "raises", vals |-> << >>]       the attribute lookup raises an
\*                                             exception other than AttributeError
\*   [kind |-> "noniterable", vals |-> << >>]  a value list() raises on
\*   [kind |-> "values", vals |-> vals]        the sequence vals
\* line 302: float(importances[i]); not-a-number stays not-a-number
ImportanceFloat(v) == v
\* lines 300-304: <<"ok", local>>, or <<"raise", << >> >> when list() or float() raises
ImportanceLocal(importances, feature_names) ==
    IF \/ importances.kind = "noniterable"
       \/ \E i \in 1..Len(feature_names) :
             i <= Len(importances.vals) /\ importances.vals[i] = BadValue
    THEN <<"raise", << >> >>
    ELSE <<"ok", [i \in 1..Len(feature_names) |->
                    <<feature_names[i],
                      IF i <= Len(importances.vals) THEN ImportanceFloat(importances.vals[i])
                      ELSE Num(0)>>]>>
\* lines 297-309.  hasattr() at line 298 is outside the try block and only
\* swallows AttributeError: <<"raise", {}>> when the lookup raises anything else.
ImportanceTier(model, importances, feature_names) ==
    IF model = None \/ importances.kind = "absent" THEN <<"skip", {}>>
    ELSE IF importances.kind = "raises" THEN <<"raise", {}>>
    ELSE LET local == ImportanceLocal(importances, feature_names) IN
         IF local[1] = "raise" THEN <<"skip", {}>>
         ELSE <<"ok", SortedOutcomes(local[2])>>
\* line 312
NeutralTier(feature_names) == [i \in 1..Len(feature_names) |-> <<feature_names[i], Num(0)>>]
\* mutant: the importance tier is tried first
ComputeAttributeWeights_ImportanceFirst(explainer, shapOut, model, importances, feature_names) ==
    LET t1 == ExplainerTier(explainer, shapOut, feature_names)
        t2 == ImportanceTier(model, importances, feature_names)
    IN IF t2[1] = "ok" THEN [kind |-> "return", tier |-> "importance", results |-> t2[2]]
       ELSE IF t2[1] = "raise" THEN [kind |-> "raise", tier |-> "none", results |-> {}]
       ELSE IF t1[1] = "ok" THEN [kind |-> "return", tier |-> "explainer", results |-> t1[2]]
       ELSE [kind |-> "return", tier |-> "neutral", results |-> {NeutralTier(feature_names)}]
\* lines 266-312: the call returns one of results, computed by tier, or raises
ComputeAttributeWeights(explainer, shapOut, model, importances, feature_names) ==
    LET t1 == ExplainerTier(explainer, shapOut, feature_names)
        t2 == ImportanceTier(model, importances, feature_names)
    IN IF t1[1] = "ok" THEN [kind |-> "return", tier |-> "explainer", results |-> t1[2]]
       ELSE IF t2[1] = "ok" THEN [kind |-> "return", tier |-> "importance", results |-> t2[2]]
       ELSE IF t2[1] = "raise" THEN [kind |-> "raise", tier |-> "none", results |-> {}]
       ELSE [kind |-> "return", tier |-> "neutral", results |-> {NeutralTier(feature_names)}]

----------------------------------------------------------------------------
(* The threads.  pc[t] = "idle": thread t runs no call and holds no        *)
(* instance; "ready": get_classifier() has returned the instance to t.     *)
Goto(t, label) == pc' = [pc EXCEPT ![t] = label]
Raise(t, e) == exc' = [exc EXCEPT ![t] = e]

\* lines 321-328, 314-317: get_classifier() -> get_instance() -> cls()
CallGetClassifier(t) ==
    /\ pc[t] = "idle"
    /\ Goto(t, "new_check")
    /\ op' = [op EXCEPT ![t] = "get_classifier"]
    /\ UNCHANGED <<pure, instance, created, lock, attrs, ghosts, self, io, exc, last, out>>

\* line 67: if cls._instance is None (not under the lock)
NewCheck(t) ==
    /\ pc[t] = "new_check"
    /\ Goto(t, IF instance = 0 THEN "new_lock" ELSE "new_return")
    /\ UNCHANGED <<pure, instance, created, lock, attrs, ghosts, op, self, io, exc, last, out>>

\* mutant: no second check under the lock
NewLock_NoInnerCheck(t) ==
    /\ pc[t] = "new_lock"
    /\ lock = 0
    /\ lock' = t
    /\ Goto(t, "new_create")
    /\ UNCHANGED <<pure, instance, created, attrs, ghosts, op, self, io, exc, last, out>>
\* lines 68-69: with cls._lock: if cls._instance is None
NewLock(t) ==
    /\ pc[t] = "new_lock"
    /\ lock = 0
    /\ lock' = t
    /\ Goto(t, IF instance = 0 THEN "new_create" ELSE "new_unlock")
    /\ UNCHANGED <<pure, instance, created, attrs, ghosts, op, self, io, exc, last, out>>

\* line 70: cls._instance = super().__new__(cls); the new object has no attributes
NewCreate(t) ==
    /\ pc[t] = "new_create"
    /\ created' = Count(created)
    /\ instance' = Count(created)
    /\ initialized' = "unset"
    /\ models_loaded' = "unset"
    /\ prediction_model' = "unset"
    /\ shap_explainer' = "unset"
    /\ prediction_model_path' = "unset"
    /\ shap_explainer_path' = "unset"
    /\ Goto(t, "new_setinit")
    /\ UNCHANGED <<pure, lock, ghosts, op, self, io, exc, last, out>>

\* line 71: cls._instance._initialized = False
NewSetInitialized(t) ==
    /\ pc[t] = "new_setinit"
    /\ initialized' = "False"
    /\ Goto(t, "new_unlock")
    /\ UNCHANGED <<pure, instance, created, lock, models_loaded, prediction_model, shap_explainer,
                   prediction_model_path, shap_explainer_path, ghosts, op, self, io, exc,
                   last, out>>

\* leaving the with block of lines 68-71
NewUnlock(t) ==
    /\ pc[t] = "new_unlock"
    /\ lock' = 0
    /\ Goto(t, "new_return")
    /\ UNCHANGED <<pure, instance, created, attrs, ghosts, op, self, io, exc, last, out>>

\* line 72: return cls._instance; Python then calls __init__ on it
NewReturn(t) ==
    /\ pc[t] = "new_return"
    /\ self' = [self EXCEPT ![t] = instance]
    /\ Goto(t, "init_check")
    /\ UNCHANGED <<pure, instance, created, lock, attrs, ghosts, op, io, exc, last, out>>

\* lines 76-77: if self._initialized: return
InitCheck(t) ==
    /\ pc[t] = "init_check"
    /\ IF initialized = "unset"
       THEN Raise(t, AttributeError) /\ Goto(t, "raised")
       ELSE /\ Goto(t, IF initialized = "True" THEN "returned" ELSE "init_79")
            /\ UNCHANGED exc
    /\ UNCHANGED <<pure, instance, created, lock, attrs, ghosts, op, self, io, last, out>>

\* line 79: self._prediction_model = None
InitPredictionModel(t) ==
    /\ pc[t] = "init_79"
    /\ prediction_model' = None
    /\ Goto(t, "init_80")
    /\ UNCHANGED <<pure, instance, created, lock, initialized, models_loaded, shap_explainer,
                   prediction_model_path, shap_explainer_path, ghosts, op, self, io, exc,
                   last, out>>

\* line 80: self._shap_explainer = None
InitShapExplainer(t) ==
    /\ pc[t] = "init_80"
    /\ shap_explainer' = None
    /\ Goto(t, "init_81")
    /\ UNCHANGED <<pure, instance, created, lock, initialized, models_loaded, prediction_model,
                   prediction_model_path, shap_explainer_path, ghosts, op, self, io, exc,
                   last, out>>

\* mutant: the constructor marks the models as loaded
InitModelsLoaded_Eager(t) ==
    /\ pc[t] = "init_81"
    /\ models_loaded' = "True"
    /\ Goto(t, "init_82")
    /\ UNCHANGED <<pure, instance, created, lock, initialized, prediction_model, shap_explainer,
                   prediction_model_path, shap_explainer_path, ghosts, op, self, io, exc,
                   last, out>>
\* line 81: self._models_loaded = False
InitModelsLoaded(t) ==
    /\ pc[t] = "init_81"
    /\ models_loaded' = "False"
    /\ Goto(t, "init_82")
    /\ UNCHANGED <<pure, instance, created, lock, initialized, prediction_model, shap_explainer,
                   prediction_model_path, shap_explainer_path, ghosts, op, self, io, exc,
                   last, out>>

\* line 82: self._initialized = True
InitInitialized(t) ==
    /\ pc[t] = "init_82"
    /\ initialized' = "True"
    /\ Goto(t, "init_86")
    /\ UNCHANGED <<pure, instance, created, lock, models_loaded, prediction_model, shap_explainer,
                   prediction_model_path, shap_explainer_path, ghosts, op, self, io, exc,
                   last, out>>

\* lines 85-86: self._base_path, self._prediction_model_path
InitPredictionModelPath(t) ==
    /\ pc[t] = "init_86"
    /\ prediction_model_path' = "set"
    /\ Goto(t, "init_87")
    /\ UNCHANGED <<pure, instance, created, lock, initialized, models_loaded, prediction_model,
                   shap_explainer, shap_explainer_path, ghosts, op, self, io, exc, last, out>>

\* lines 87-89: self._shap_explainer_path; __init__ returns
InitShapExplainerPath(t) ==
    /\ pc[t] = "init_87"
    /\ shap_explainer_path' = "set"
    /\ Goto(t, "returned")
    /\ UNCHANGED <<pure, instance, created, lock, initialized, models_loaded, prediction_model,
                   shap_explainer, prediction_model_path, ghosts, op, self, io, exc, last, out>>

----------------------------------------------------------------------------
\* What joblib.load / pickle.load can do with an artifact: return the object,
\* raise FileNotFoundError (an OSError met while reading or unpickling), or
\* raise any other Exception.
DeserializeResults == {"ok", "FileNotFoundError", "OtherError"}
\* the exception a deserializer raises
DeserializerError(r) ==
    IF r = "FileNotFoundError"
    THEN [type |-> "FileNotFoundError", msg |-> "No such file or directory"]
    ELSE [type |-> "OtherError", msg |-> "could not deserialize"]
\* mutant: every exception is wrapped
LoadHandlers_WrapAll(e) == LoadFailure
\* lines 160-165: except FileNotFoundError: raise / except Exception: raise Exception(...)
LoadHandlers(e) == IF e.type = "FileNotFoundError" THEN e ELSE LoadFailure

\* Where a call continues once _load_models() has returned normally.
AfterLoad(t) == IF op[t] = "predict" THEN "pred_map" ELSE "returned"

\* line 240 (ensure_loaded) and line 199 (predict): if not self._models_loaded
CallEnsureLoaded(t) ==
    /\ pc[t] = "ready"
    /\ op' = [op EXCEPT ![t] = "ensure_loaded"]
    /\ IF models_loaded = "unset"
       THEN Raise(t, AttributeError) /\ Goto(t, "raised")
       ELSE /\ Goto(t, IF models_loaded = "True" THEN "returned" ELSE "load_check")
            /\ UNCHANGED exc
    /\ UNCHANGED <<pure, instance, created, lock, attrs, ghosts, self, io, last, out>>

CallPredict(t) ==
    /\ pc[t] = "ready"
    /\ op' = [op EXCEPT ![t] = "predict"]
    /\ IF models_loaded = "unset"
       THEN Raise(t, AttributeError) /\ Goto(t, "raised")
       ELSE /\ Goto(t, IF models_loaded = "True" THEN "pred_map" ELSE "load_check")
            /\ UNCHANGED exc
    /\ UNCHANGED <<pure, instance, created, lock, attrs, ghosts, self, io, last, out>>

\* lines 234-236: is_loaded()
CallIsLoaded(t) ==
    /\ pc[t] = "ready"
    /\ op' = [op EXCEPT ![t] = "is_loaded"]
    /\ IF models_loaded = "unset"
       THEN Raise(t, AttributeError) /\ Goto(t, "raised") /\ UNCHANGED out
       ELSE /\ Goto(t, "returned")
            /\ out' = [out EXCEPT ![t] = [stage |-> "is_loaded", value |-> models_loaded]]
            /\ UNCHANGED exc
    /\ UNCHANGED <<pure, instance, created, lock, attrs, ghosts, self, io, last>>

\* lines 99-100: if self._models_loaded: return (not under the lock)
LoadCheck(t) ==
    /\ pc[t] = "load_check"
    /\ IF models_loaded = "unset"
       THEN Raise(t, AttributeError) /\ Goto(t, "raised")
       ELSE /\ Goto(t, IF models_loaded = "True" THEN AfterLoad(t) ELSE "load_lock")
            /\ UNCHANGED exc
    /\ UNCHANGED <<pure, instance, created, lock, attrs, ghosts, op, self, io, last, out>>

\* mutant: no second check under the lock
LoadLock_NoSecondCheck(t) ==
    /\ pc[t] = "load_lock"
    /\ lock = 0
    /\ lock' = t
    /\ Goto(t, "load_clf")
    /\ UNCHANGED <<pure, instance, created, attrs, ghosts, op, self, io, exc, last, out>>
\* lines 102-104: with self._lock: if self._models_loaded: return
LoadLock(t) ==
    /\ pc[t] = "load_lock"
    /\ lock = 0
    /\ lock' = t
    /\ IF models_loaded = "unset"
       THEN Raise(t, AttributeError) /\ Goto(t, "load_unlock")
       ELSE /\ Goto(t, IF models_loaded = "True" THEN "load_unlock" ELSE "load_clf")
            /\ UNCHANGED exc
    /\ UNCHANGED <<pure, instance, created, attrs, ghosts, op, self, io, last, out>>

\* lines 106-126: the classifier artifact.  exists is
\* self._prediction_model_path.exists(), jl and pk what joblib.load and
\* pickle.load do with the file.
LoadClassifier(t) ==
    /\ pc[t] = "load_clf"
    /\ \E exists \in BOOLEAN, jl \in DeserializeResults, pk \in DeserializeResults :
        LET found == IF prediction_model_path = "unset" THEN "nopath"
                     ELSE IF ~exists THEN "missing"
                     ELSE IF jl = "ok" \/ pk = "ok" THEN "loaded"
                     ELSE "corrupt"
            loaded == found = "loaded"
        IN /\ io' = [io EXCEPT ![t].clf = found]
           /\ prediction_model' = IF loaded THEN "model" ELSE prediction_model
           /\ clfDeserialized' = IF loaded THEN Count(clfDeserialized) ELSE clfDeserialized
           /\ exc' = [exc EXCEPT ![t] =
                        CASE found = "nopath" -> LoadHandlers(AttributeError)
                          [] found = "missing" -> LoadHandlers(MissingArtifact)
                          [] found = "corrupt" -> LoadHandlers(DeserializerError(pk))
                          [] OTHER -> NoExc]
           /\ Goto(t, IF loaded THEN "load_shap" ELSE "load_unlock")
    /\ UNCHANGED <<pure, instance, created, lock, initialized, models_loaded, shap_explainer,
                   prediction_model_path, shap_explainer_path, shapDeserialized, op, self,
                   last, out>>

\* mutant: an explainer neither strategy can deserialize fails the load
ExplainerError_Propagates(found) ==
    IF found \in {"nopath", "corrupt"} THEN LoadFailure ELSE NoExc
\* lines 146-150: the second failure is logged, not raised; reading an unset
\* path raises AttributeError, which line 163 catches
ExplainerError(found) ==
    IF found = "nopath" THEN LoadHandlers(AttributeError) ELSE NoExc

\* lines 128-155: the explainer artifact (optional)
LoadExplainer(t) ==
    /\ pc[t] = "load_shap"
    /\ \E exists \in BOOLEAN, jl \in DeserializeResults, pk \in DeserializeResults :
        LET found == IF shap_explainer_path = "unset" THEN "nopath"
                     ELSE IF ~exists THEN "missing"
                     ELSE IF jl = "ok" \/ pk = "ok" THEN "loaded"
                     ELSE "corrupt"
            loaded == found = "loaded"
        IN /\ io' = [io EXCEPT ![t].shap = found]
           /\ shap_explainer' = IF found = "nopath" THEN shap_explainer
                                ELSE IF loaded THEN "explainer" ELSE None
           /\ shapDeserialized' = IF loaded THEN Count(shapDeserialized) ELSE shapDeserialized
           /\ exc' = [exc EXCEPT ![t] = ExplainerError(found)]
           /\ Goto(t, IF ExplainerError(found) # NoExc THEN "load_unlock" ELSE "load_set")
    /\ UNCHANGED <<pure, instance, created, lock, initialized, models_loaded, prediction_model,
                   prediction_model_path, shap_explainer_path, clfDeserialized, op, self,
                   last, out>>

\* mutant: the flag is never set
LoadSetLoaded_Forgotten(t) ==
    /\ pc[t] = "load_set"
    /\ Goto(t, "load_unlock")
    /\ UNCHANGED <<pure, instance, created, lock, attrs, ghosts, op, self, io, exc, last, out>>
\* line 157: self._models_loaded = True
LoadSetLoaded(t) ==
    /\ pc[t] = "load_set"
    /\ models_loaded' = "True"
    /\ Goto(t, "load_unlock")
    /\ UNCHANGED <<pure, instance, created, lock, initialized, prediction_model, shap_explainer,
                   prediction_model_path, shap_explainer_path, ghosts, op, self, io, exc,
                   last, out>>

\* mutant: the lock is kept when the load ends with an exception
LoadUnlock_KeptOnFailure(t) ==
    /\ pc[t] = "load_unlock"
    /\ lock' = IF exc[t] # NoExc THEN lock ELSE 0
    /\ Goto(t, IF exc[t] # NoExc THEN "raised" ELSE AfterLoad(t))
    /\ UNCHANGED <<pure, instance, created, attrs, ghosts, op, self, io, exc, last, out>>
\* leaving the with block of lines 102-165, by return or by an exception
LoadUnlock(t) ==
    /\ pc[t] = "load_unlock"
    /\ lock' = 0
    /\ Goto(t, IF exc[t] # NoExc THEN "raised" ELSE AfterLoad(t))
    /\ UNCHANGED <<pure, instance, created, attrs, ghosts, op, self, io, exc, last, out>>

----------------------------------------------------------------------------
\* Probabilities are counted in tenths: 7 is 0.7.
\* What self._prediction_model.predict_proba([feature_values])[0] does (line 217):
\* it raises, or returns a sequence of class probabilities.
ProbaSamples ==
    { [kind |-> "raise", proba |-> << >>],
      [kind |-> "ok", proba |-> <<5>>],
      [kind |-> "ok", proba |-> <<3, 7>>],
      [kind |-> "ok", proba |-> <<8, 2>>] }
\* raw inputs of the requests the threads serve: the full payload of the
\* request schema (api/schemas/tabular.py lines 6-26) and a sparse one
FullPayload ==
    << <<"pl_orbper", "a">>, <<"pl_orbsmax", "a">>, <<"pl_eqt", "a">>, <<"pl_insol", "a">>,
       <<"pl_imppar", "a">>, <<"pl_trandep", "a">>, <<"pl_trandur", "a">>,
       <<"pl_ratdor", "a">>, <<"pl_ratror", "a">>, <<"st_teff", "a">>, <<"st_rad", "a">>,
       <<"st_mass", "a">>, <<"st_met", "a">>, <<"st_logg", "a">>, <<"sy_gmag", "b">>,
       <<"sy_rmag", "c">>, <<"sy_imag", "a">>, <<"sy_zmag", "b">>, <<"sy_jmag", "c">>,
       <<"sy_hmag", "b">>, <<"sy_kmag", "c">> >>
RawSamples == { FullPayload, << <<"pl_orbper", "a">>, <<"sy_kmag", "b">> >> }
\* explainer and classifier behaviours the threads meet
ShapSamples ==
    { [kind |-> "raise", data |-> << >>],
      [kind |-> "array", data |-> << <<Num(1), Num(-3), NanValue>> >>] }
ImportanceSamples ==
    { [kind |-> "absent", vals |-> << >>],
      [kind |-> "raises", vals |-> << >>],
      [kind |-> "values", vals |-> <<Num(1), Num(2)>>] }

Max(a, b) == IF a >= b THEN a ELSE b
RECURSIVE SeqMax(_)
SeqMax(seq) == IF Len(seq) = 1 THEN seq[1] ELSE Max(seq[1], SeqMax(Tail(seq)))
\* mutant: the first entry is taken
PredictedValue_FirstEntry(proba) == proba[1]
\* line 218: float(prediction_proba[1]), Python index 1
PredictedValue(proba) == proba[2]
\* line 219: float(max(prediction_proba))
Confidence(proba) == SeqMax(proba)

\* lines 206-214: map the features, then check the classifier handle.
\* Every exception raised from here on is caught at line 230.
PredictMap(t) ==
    /\ pc[t] = "pred_map"
    /\ \E input_data \in RawSamples :
        IF prediction_model \in {"unset", None}
        THEN /\ Raise(t, PredictHandler(IF prediction_model = None THEN ModelNotLoaded
                                        ELSE AttributeError))
             /\ Goto(t, "raised")
             /\ UNCHANGED out
        ELSE /\ out' = [out EXCEPT ![t] =
                          [stage |-> "mapped", features |-> MapAndBuildFeatures(input_data)]]
             /\ Goto(t, "pred_proba")
             /\ UNCHANGED exc
    /\ UNCHANGED <<pure, instance, created, lock, attrs, ghosts, op, self, io, last>>

\* lines 216-219: invoke the classifier
PredictProba(t) ==
    /\ pc[t] = "pred_proba"
    /\ \E r \in ProbaSamples :
        IF prediction_model \in {"unset", None} \/ r.kind = "raise" \/ Len(r.proba) < 2
        THEN /\ Raise(t, PredictHandler(IF prediction_model \in {"unset", None}
                                        THEN AttributeError
                                        ELSE IF r.kind = "raise" THEN ClassifierError
                                        ELSE IndexError))
             /\ Goto(t, "raised")
             /\ UNCHANGED out
        ELSE /\ out' = [out EXCEPT ![t] =
                          [stage |-> "proba", feature_names_used |-> out[t].features[2],
                           proba |-> r.proba,
                           predicted_value |-> PredictedValue(r.proba),
                           confidence |-> Confidence(r.proba)]]
             /\ Goto(t, "pred_weights")
             /\ UNCHANGED exc
    /\ UNCHANGED <<pure, instance, created, lock, attrs, ghosts, op, self, io, last>>

\* lines 221-228: attribute weights, return the triple; reading an unset
\* handle (lines 271, 297) raises AttributeError
PredictWeights(t) ==
    /\ pc[t] = "pred_weights"
    /\ \E shapOut \in ShapSamples, importances \in ImportanceSamples :
        LET names == out[t].feature_names_used
            unset == \/ shap_explainer = "unset"
                     \/ /\ prediction_model = "unset"
                        /\ ExplainerTier(shap_explainer, shapOut, names)[1] # "ok"
            call == ComputeAttributeWeights(shap_explainer, shapOut, prediction_model,
                                            importances, names)
        IN IF unset \/ call.kind = "raise"
           THEN /\ Raise(t, PredictHandler(IF unset THEN AttributeError ELSE LookupFailure))
                /\ Goto(t, "raised")
                /\ UNCHANGED out
           ELSE /\ \E weights \in call.results :
                    out' = [out EXCEPT ![t] =
                              [stage |-> "result", proba |-> out[t].proba,
                               predicted_value |-> out[t].predicted_value,
                               confidence |-> out[t].confidence,
                               attribute_weights |-> weights]]
                /\ Goto(t, "returned")
                /\ UNCHANGED exc
    /\ UNCHANGED <<pure, instance, created, lock, attrs, ghosts, op, self, io, last>>

\* The call returns to its caller, who now holds the instance.
Returned(t) ==
    /\ pc[t] = "returned"
    /\ Goto(t, "ready")
    /\ last' = IF op[t] = "ensure_loaded"
               THEN IF io[t].clf = "none" THEN "ok_noio" ELSE "ok_io"
               ELSE last
    /\ op' = [op EXCEPT ![t] = "none"]
    /\ io' = [io EXCEPT ![t] = NoIo]
    /\ out' = [out EXCEPT ![t] = NoOut]
    /\ UNCHANGED <<pure, instance, created, lock, attrs, ghosts, self, exc>>

\* The exception reaches the caller; a failed get_classifier() hands out no instance.
Raised(t) ==
    /\ pc[t] = "raised"
    /\ Goto(t, IF op[t] = "get_classifier" THEN "idle" ELSE "ready")
    /\ self' = [self EXCEPT ![t] = IF op[t] = "get_classifier" THEN 0 ELSE self[t]]
    /\ last' = IF op[t] = "ensure_loaded"
               THEN IF io[t].clf = "none" THEN "none" ELSE "fail_io"
               ELSE last
    /\ op' = [op EXCEPT ![t] = "none"]
    /\ io' = [io EXCEPT ![t] = NoIo]
    /\ exc' = [exc EXCEPT ![t] = NoExc]
    /\ out' = [out EXCEPT ![t] = NoOut]
    /\ UNCHANGED <<pure, instance, created, lock, attrs, ghosts>>

\* The caller is done with the instance (ml/predictor.py lines 36-39,
\* api/routes/health.py lines 29-30, main.py lines 57-59).
Release(t) ==
    /\ pc[t] = "ready"
    /\ Goto(t, "idle")
    /\ self' = [self EXCEPT ![t] = 0]
    /\ UNCHANGED <<pure, instance, created, lock, attrs, ghosts, op, io, exc, last, out>>

----------------------------------------------------------------------------
(* The boundary function predict_tabular (ml/predictor.py lines 8-52). *)
NoRequest == [stage |-> "none"]

\* ml/predictor.py lines 259-280: the features the mock may weigh
important_features ==
    <<"pl_trandep", "pl_orbper", "pl_trandur", "st_teff", "sy_gmag", "pl_ratror", "st_rad",
      "pl_insol", "st_mass", "sy_jmag", "sy_hmag", "sy_kmag", "pl_eqt", "st_met",
      "pl_ratdor", "st_logg", "pl_imppar", "sy_rmag", "sy_imag", "sy_zmag">>
\* ml/predictor.py line 284: random.randint(15, 20)
MockDraws == 15..20
\* ml/predictor.py lines 167-174 and 282-285: the mock is seeded by the sorted
\* items of the input and weighs num_features of the features it knows
PredictTabularMock(input_data, draw) ==
    LET known(f) == HasKey(input_data, f)
        available_features == SelectSeq(important_features, known)
    IN [source |-> "mock",
        seed |-> {input_data[i] : i \in 1..Len(input_data)},
        available_features |-> available_features,
        num_features |-> IF Len(available_features) <= draw
                         THEN Len(available_features) ELSE draw]

\* mutant: a missing artifact fails the request
PredictTabularHandler_MissingFails(e) ==
    IF e.type \in {"ValueError", "FileNotFoundError"} THEN "raise" ELSE "mock"
\* ml/predictor.py lines 41-52: except ValueError: raise; except
\* FileNotFoundError and except Exception: return predict_tabular_mock(input_data)
PredictTabularHandler(e) ==
    IF e.type = "ValueError" THEN "raise" ELSE "mock"

\* ml/predictor.py lines 33-36: predict_tabular(input_data) is called and
\* asks for the classifier
PredictTabularCall(t) ==
    /\ pc[t] = "idle"
    /\ \E input_data \in RawSamples :
          request' = [request EXCEPT ![t] = [stage |-> "try", input_data |-> input_data]]
    /\ Goto(t, "new_check")
    /\ op' = [op EXCEPT ![t] = "get_classifier"]
    /\ UNCHANGED <<raw_input, mapped, raw_other, mapped_other, attribution, instance,
                   created, lock, attrs, ghosts, self, io, exc, last, out>>

\* ml/predictor.py line 36: classifier = get_classifier() returned
ClassifierObtained(t) ==
    /\ op[t] = "get_classifier"
    /\ request[t].stage = "try"
    /\ Returned(t)

\* ml/predictor.py line 37: classifier.predict(input_data)
ClassifierPredict(t) ==
    /\ request[t].stage = "try"
    /\ CallPredict(t)

\* ml/predictor.py lines 37-39: predict() returned, its triple is handed on
PredictTabularReturn(t) ==
    /\ pc[t] = "returned"
    /\ op[t] = "predict"
    /\ request[t].stage = "try"
    /\ request' = [request EXCEPT ![t] =
                      [stage |-> "returned", input_data |-> request[t].input_data,
                       failure |-> NoExc,
                       result |-> [source |-> "model",
                                   predicted_value |-> out[t].predicted_value,
                                   confidence |-> out[t].confidence,
                                   attribute_weights |-> out[t].attribute_weights]]]
    /\ Goto(t, "idle")
    /\ self' = [self EXCEPT ![t] = 0]
    /\ op' = [op EXCEPT ![t] = "none"]
    /\ io' = [io EXCEPT ![t] = NoIo]
    /\ out' = [out EXCEPT ![t] = NoOut]
    /\ UNCHANGED <<raw_input, mapped, raw_other, mapped_other, attribution, instance,
                   created, lock, attrs, ghosts, exc, last>>

\* ml/predictor.py lines 41-52: an exception left the try block
PredictTabularExcept(t) ==
    /\ pc[t] = "raised"
    /\ request[t].stage = "try"
    /\ IF PredictTabularHandler(exc[t]) = "raise"
       THEN request' = [request EXCEPT ![t] =
                           [stage |-> "raised", input_data |-> request[t].input_data,
                            failure |-> exc[t]]]
       ELSE \E draw \in MockDraws :
               request' = [request EXCEPT ![t] =
                              [stage |-> "returned", input_data |-> request[t].input_data,
                               failure |-> exc[t],
                               result |-> PredictTabularMock(request[t].input_data, draw)]]
    /\ Goto(t, "idle")
    /\ self' = [self EXCEPT ![t] = 0]
    /\ op' = [op EXCEPT ![t] = "none"]
    /\ io' = [io EXCEPT ![t] = NoIo]
    /\ exc' = [exc EXCEPT ![t] = NoExc]
    /\ out' = [out EXCEPT ![t] = NoOut]
    /\ UNCHANGED <<raw_input, mapped, raw_other, mapped_other, attribution, instance,
                   created, lock, attrs, ghosts, last>>

----------------------------------------------------------------------------
NotMapped == << << >>, << >> >>
NoAttribution == [stage |-> "none"]

\* No feature mapping is under way.
InitPure ==
    /\ raw_input = << >>
    /\ mapped = NotMapped
    /\ raw_other = << >>
    /\ mapped_other = NotMapped
    /\ attribution = NoAttribution

\* No thread runs a call.
InitThreads ==
    /\ lock = 0
    /\ clfDeserialized = 0
    /\ shapDeserialized = 0
    /\ pc = [t \in Threads |-> "idle"]
    /\ op = [t \in Threads |-> "none"]
    /\ self = [t \in Threads |-> 0]
    /\ io = [t \in Threads |-> NoIo]
    /\ exc = [t \in Threads |-> NoExc]
    /\ last = "none"
    /\ out = [t \in Threads |-> NoOut]
    /\ request = [t \in Threads |-> NoRequest]

\* The class right after the module is imported (lines 34-35): no instance.
InitClass ==
    /\ instance = 0
    /\ created = 0
    /\ initialized = "unset"
    /\ models_loaded = "unset"
    /\ prediction_model = "unset"
    /\ shap_explainer = "unset"
    /\ prediction_model_path = "unset"
    /\ shap_explainer_path = "unset"

\* The process right after the module is imported.
Init == InitClass /\ InitThreads /\ InitPure

\* get_classifier(): __new__ (lines 65-72), then __init__ (lines 74-89)
AccessorStep(t) ==
    \/ CallGetClassifier(t)
    \/ NewCheck(t)
    \/ NewLock(t)
    \/ NewCreate(t)
    \/ NewSetInitialized(t)
    \/ NewUnlock(t)
    \/ NewReturn(t)
    \/ InitCheck(t)
    \/ InitPredictionModel(t)
    \/ InitShapExplainer(t)
    \/ InitModelsLoaded(t)
    \/ InitInitialized(t)
    \/ InitPredictionModelPath(t)
    \/ InitShapExplainerPath(t)

\* get_classifier() once the singleton exists and is initialized
AccessStep(t) ==
    \/ CallGetClassifier(t)
    \/ NewCheck(t)
    \/ NewReturn(t)
    \/ InitCheck(t)

\* ensure_loaded(), predict(), is_loaded()
MethodStep(t) ==
    \/ CallEnsureLoaded(t)
    \/ CallPredict(t)
    \/ CallIsLoaded(t)
    \/ LoadCheck(t)
    \/ LoadLock(t)
    \/ LoadClassifier(t)
    \/ LoadExplainer(t)
    \/ LoadSetLoaded(t)
    \/ LoadUnlock(t)
    \/ PredictMap(t)
    \/ PredictProba(t)
    \/ PredictWeights(t)

\* what the caller does with the outcome of a call
CallerStep(t) ==
    \/ Returned(t)
    \/ Raised(t)
    \/ Release(t)

Next == \E t \in Threads : AccessorStep(t) \/ MethodStep(t) \/ CallerStep(t)

\* Threads racing from the first access to the singleton on.
Spec == Init /\ [][Next]_vars

\* Threads racing on the accessor alone.
NextAccessor == \E t \in Threads : AccessorStep(t) \/ CallerStep(t)
SpecAccessor == Init /\ [][NextAccessor]_vars

\* The singleton once one thread has constructed it (lines 65-89 run to the
\* end) and nothing is loaded yet: main.py line 57, before line 59.
InitConstructed ==
    /\ instance = 1
    /\ created = 1
    /\ initialized = "True"
    /\ models_loaded = "False"
    /\ prediction_model = None
    /\ shap_explainer = None
    /\ prediction_model_path = "set"
    /\ shap_explainer_path = "set"

InitLoader == InitConstructed /\ InitThreads /\ InitPure

\* Threads using an unloaded, fully constructed instance concurrently.
NextLoader == \E t \in Threads : AccessStep(t) \/ MethodStep(t) \/ CallerStep(t)
SpecLoader == InitLoader /\ [][NextLoader]_vars

\* The steps of a running call that wait for nothing: a thread that is
\* scheduled takes them.  Each deserialization attempt ends (LoadClassifier,
\* LoadExplainer).
RunningStep(t) ==
    \/ NewCheck(t)
    \/ NewCreate(t)
    \/ NewSetInitialized(t)
    \/ NewUnlock(t)
    \/ NewReturn(t)
    \/ InitCheck(t)
    \/ InitPredictionModel(t)
    \/ InitShapExplainer(t)
    \/ InitModelsLoaded(t)
    \/ InitInitialized(t)
    \/ InitPredictionModelPath(t)
    \/ InitShapExplainerPath(t)
    \/ LoadCheck(t)
    \/ LoadClassifier(t)
    \/ LoadExplainer(t)
    \/ LoadSetLoaded(t)
    \/ LoadUnlock(t)
    \/ PredictMap(t)
    \/ PredictProba(t)
    \/ PredictWeights(t)
\* lines 68 and 102: entering a with-block of the lock blocks while another
\* thread holds it
AcquireStep(t) == NewLock(t) \/ LoadLock(t)
\* Fair scheduling: every thread inside a call keeps running, and a thread
\* blocked on the lock gets it when the lock is released again and again.
\* Callers are free never to call again.
FairScheduling ==
    \A t \in Threads : WF_vars(RunningStep(t)) /\ SF_vars(AcquireStep(t))
SpecLoaderFair == SpecLoader /\ FairScheduling
\* the same scheduling for threads racing from the first access on
SpecFair == Spec /\ FairScheduling
\* the same scheduling for callers of get_classifier() and ensure_loaded() only
NextEnsure ==
    \E t \in Threads :
        \/ AccessStep(t)
        \/ CallEnsureLoaded(t)
        \/ LoadCheck(t)
        \/ LoadLock(t)
        \/ LoadClassifier(t)
        \/ LoadExplainer(t)
        \/ LoadSetLoaded(t)
        \/ LoadUnlock(t)
        \/ CallerStep(t)
SpecEnsureFair == InitLoader /\ [][NextEnsure]_vars /\ FairScheduling

\* One caller making its calls in sequence.
NextCaller == \E t \in {1} : AccessStep(t) \/ MethodStep(t) \/ CallerStep(t)
SpecCaller == InitLoader /\ [][NextCaller]_vars

\* Threads constructing the singleton and asking is_loaded(): no
\* ensure_loaded(), no predict().
NextConstruct == \E t \in Threads : AccessorStep(t) \/ CallIsLoaded(t) \/ CallerStep(t)
SpecConstruct == Init /\ [][NextConstruct]_vars

\* predict_tabular() serving two requests at a time on a constructed instance:
\* the steps of get_classifier() and predict() between the boundary's own
BoundaryStep(t) ==
    \/ PredictTabularCall(t)
    \/ NewCheck(t)
    \/ NewReturn(t)
    \/ InitCheck(t)
    \/ ClassifierObtained(t)
    \/ ClassifierPredict(t)
    \/ LoadCheck(t)
    \/ LoadLock(t)
    \/ LoadClassifier(t)
    \/ LoadExplainer(t)
    \/ LoadSetLoaded(t)
    \/ LoadUnlock(t)
    \/ PredictMap(t)
    \/ PredictProba(t)
    \/ PredictWeights(t)
    \/ PredictTabularReturn(t)
    \/ PredictTabularExcept(t)
NextBoundary == \E t \in {1, 2} : BoundaryStep(t)
SpecBoundary == InitLoader /\ [][NextBoundary]_vars

----------------------------------------------------------------------------
\* The feature mapper applied to one raw input.
MaxEntries == 3
MapperKeys == {"pl_orbper", "sy_imag", "sy_gmag", "sy_kmag", "sy_vmag", "sy_dist",
               "kepmag", "ra"}
\* a value is None or a number; the numbers are opaque to the mapper
RawValues == {None, "a", "b"}
RawInputs ==
    { d \in UNION { [1..n -> MapperKeys \X RawValues] : n \in 0..MaxEntries } :
        \A i, j \in 1..Len(d) : d[i][1] = d[j][1] => i = j }

InitMapper ==
    /\ InitClass
    /\ InitThreads
    /\ raw_input \in RawInputs
    /\ mapped = NotMapped
    /\ raw_other = << >>
    /\ mapped_other = NotMapped
    /\ attribution = NoAttribution

\* lines 206-208: feature_values, feature_names_used = self._map_and_build_features(input_data)
MapFeatures ==
    /\ mapped = NotMapped
    /\ mapped' = MapAndBuildFeatures(raw_input)
    /\ UNCHANGED <<lifecycle, raw_input, raw_other, mapped_other, attribution, request>>

NextMapper == MapFeatures
SpecMapper == InitMapper /\ [][NextMapper]_vars

----------------------------------------------------------------------------
\* The feature mapper applied to two raw inputs, one call after the other.
\* The second input lists the entries of the first in another order, or
\* differs from it in one of the ALLOWED_EXTRA_FIELDS.
MaxPairEntries == 3
PairKeys == {"pl_orbper", "sy_imag", "sy_gmag", "sy_kmag", "sy_vmag"}
PairInputs ==
    { d \in UNION { [1..n -> PairKeys \X RawValues] : n \in 0..MaxPairEntries } :
        \A i, j \in 1..Len(d) : d[i][1] = d[j][1] => i = j }
RemoveAt(d, i) == SubSeq(d, 1, i - 1) \o SubSeq(d, i + 1, Len(d))
InsertAt(d, i, e) == SubSeq(d, 1, i - 1) \o <<e>> \o SubSeq(d, i, Len(d))
\* one of the ALLOWED_EXTRA_FIELDS removed, changed or added
ExtraEdits(d) ==
    LET extras == {i \in 1..Len(d) : d[i][1] \in ALLOWED_EXTRA_FIELDS}
        absent == (ALLOWED_EXTRA_FIELDS \cap PairKeys) \ DictKeys(d)
    IN {RemoveAt(d, i) : i \in extras}
       \cup {[d EXCEPT ![i] = <<d[i][1], v>>] : i \in extras, v \in RawValues}
       \cup (IF Len(d) < MaxPairEntries
             THEN {InsertAt(d, i, <<k, v>>) : i \in 1..(Len(d) + 1), k \in absent,
                                              v \in RawValues}
             ELSE {})

InitMapperPair ==
    /\ InitClass
    /\ InitThreads
    /\ raw_input \in PairInputs
    /\ mapped = NotMapped
    /\ raw_other \in Reorderings(raw_input) \cup ExtraEdits(raw_input)
    /\ mapped_other = NotMapped
    /\ attribution = NoAttribution

\* the second call of the mapper, made once the first has returned
MapOther ==
    /\ mapped # NotMapped
    /\ mapped_other = NotMapped
    /\ mapped_other' = MapAndBuildFeatures(raw_other)
    /\ UNCHANGED <<lifecycle, raw_input, mapped, raw_other, attribution, request>>

NextMapperPair == MapFeatures \/ MapOther
SpecMapperPair == InitMapperPair /\ [][NextMapperPair]_vars

----------------------------------------------------------------------------
\* _compute_attribute_weights called once: the two handles and the feature
\* names are given, the explainer and the classifier answer as they like.
MaxNames == 3
AttrValues == {Num(1), Num(-2), Num(3), NanValue, BadValue}
AttrRows == UNION { [1..n -> AttrValues] : n \in 0..MaxNames }
\* the attributions of the negative class, when there is one array per class
NegativeRow == [i \in 1..MaxNames |-> Num(5)]
\* what shap_values() can do (line 273)
ShapOutcomes ==
    { [kind |-> "raise", data |-> << >>],
      [kind |-> "flat", data |-> <<Num(1)>>],
      [kind |-> "array", data |-> << >>],
      [kind |-> "list", data |-> << >>],
      [kind |-> "list", data |-> << <<NegativeRow>>, << >> >>] }
    \cup { [kind |-> "array", data |-> <<row>>] : row \in AttrRows }
    \cup { [kind |-> "list", data |-> << <<row>> >>] : row \in AttrRows }
    \cup { [kind |-> "list", data |-> << <<NegativeRow>>, <<row>> >>] : row \in AttrRows }
\* what the classifier can answer when asked for feature_importances_ (lines 298-302)
ImportanceOutcomes ==
    { [kind |-> "absent", vals |-> << >>],
      [kind |-> "raises", vals |-> << >>],
      [kind |-> "noniterable", vals |-> << >>] }
    \cup { [kind |-> "values", vals |-> row] : row \in AttrRows }
\* no explainer to call (line 271), no classifier to ask (line 298)
NotCalled == [kind |-> "notcalled", data |-> << >>]
NotAsked == [kind |-> "notasked", vals |-> << >>]

InitWeights ==
    /\ InitClass
    /\ InitThreads
    /\ raw_input = << >>
    /\ mapped = NotMapped
    /\ raw_other = << >>
    /\ mapped_other = NotMapped
    /\ \E explainer \in {None, "explainer"}, model \in {None, "model"}, n \in 0..MaxNames :
          attribution = [stage |-> "called", explainer |-> explainer, model |-> model,
                         feature_names |-> SubSeq(EXPECTED_FEATURES, 1, n)]

\* how a call of _compute_attribute_weights ends, given what the explainer
\* and the classifier answered
WeightsOutcome(shapOut, importances) ==
    LET call == ComputeAttributeWeights(attribution.explainer, shapOut, attribution.model,
                                        importances, attribution.feature_names)
        done(stage, weights) ==
            [stage |-> stage, explainer |-> attribution.explainer,
             model |-> attribution.model, feature_names |-> attribution.feature_names,
             shapOut |-> shapOut, importances |-> importances, tier |-> call.tier,
             weights |-> weights]
    IN IF call.kind = "raise"
       THEN attribution' = done("raised", << >>)
       ELSE \E weights \in call.results : attribution' = done("returned", weights)

\* lines 271-292: the explainer tier returns; the classifier is not consulted,
\* whatever it would have answered
ComputeWeightsExplained ==
    /\ attribution.stage = "called"
    /\ attribution.explainer # None
    /\ \E shapOut \in ShapOutcomes,
          importances \in (IF attribution.model = None THEN {NotAsked} ELSE ImportanceSamples) :
          /\ ExplainerTier(attribution.explainer, shapOut, attribution.feature_names)[1] = "ok"
          /\ WeightsOutcome(shapOut, importances)
    /\ UNCHANGED <<lifecycle, raw_input, mapped, raw_other, mapped_other, request>>

\* lines 293-312: no explainer, or the explainer tier raised; the call falls
\* back on the classifier
ComputeWeightsFallback ==
    /\ attribution.stage = "called"
    /\ \E shapOut \in (IF attribution.explainer = None THEN {NotCalled} ELSE ShapOutcomes),
          importances \in (IF attribution.model = None THEN {NotAsked} ELSE ImportanceOutcomes) :
          /\ ExplainerTier(attribution.explainer, shapOut, attribution.feature_names)[1] # "ok"
          /\ WeightsOutcome(shapOut, importances)
    /\ UNCHANGED <<lifecycle, raw_input, mapped, raw_other, mapped_other, request>>

NextWeights == ComputeWeightsExplained \/ ComputeWeightsFallback
SpecWeights == InitWeights /\ [][NextWeights]_vars

----------------------------------------------------------------------------
(* Claims *)

\* C1: every predict() call that returns after the classifier gave a pair
\* <<p0, p1>> returns p1 as the probability and the larger of p0 and p1 as the
\* confidence; <<3, 7>> (0.3, 0.7) gives probability 7 and confidence 7.
C1_PredictReturnsPositiveClassAndMax ==
    \A t \in Threads :
        (pc[t] = "returned" /\ op[t] = "predict" /\ Len(out[t].proba) = 2) =>
            LET p0 == out[t].proba[1]
                p1 == out[t].proba[2]
            IN /\ out[t].predicted_value = p1
               /\ out[t].confidence = (IF p0 >= p1 THEN p0 ELSE p1)
               /\ (out[t].proba = <<3, 7>> =>
                      out[t].predicted_value = 7 /\ out[t].confidence = 7)
\* a predict() call returns for a classifier whose larger probability is p0
C1_Witness ==
    \E t \in Threads :
        /\ pc[t] = "returned" /\ op[t] = "predict"
        /\ out[t].proba = <<8, 2>> /\ out[t].predicted_value = 2

InLoadPath(t) == pc[t] \in {"load_clf", "load_shap", "load_set", "load_unlock"}
C3_OneLoadOnly ==
    /\ \A t, u \in Threads : (InLoadPath(t) /\ InLoadPath(u)) => t = u
    /\ models_loaded = "True" =>
          \A t \in Threads : pc[t] \notin {"load_clf", "load_shap", "load_set"}
    /\ clfDeserialized <= 1
    /\ shapDeserialized <= 1
\* a thread that went for the lock while another thread was loading finds
\* the models loaded at the second check
C3_Witness ==
    \E t \in Threads :
        /\ pc[t] = "load_unlock" /\ io[t].clf = "none" /\ exc[t] = NoExc
        /\ models_loaded = "True" /\ clfDeserialized = 1 /\ shapDeserialized = 1

\* C4, as claimed: of two ensure_loaded() calls in sequence at most one does
\* disk I/O.
C4_Original_IoInAtMostOneCall ==
    \A t \in Threads :
        (op[t] = "ensure_loaded" /\ last \in {"ok_io", "fail_io"}) => io[t].clf = "none"
\* C4, amended: when the first of two ensure_loaded() calls in sequence
\* returns normally, the second one does no disk I/O.
C4_NoIoAfterSuccess ==
    \A t \in Threads :
        (op[t] = "ensure_loaded" /\ last \in {"ok_io", "ok_noio"}) => io[t].clf = "none"
\* the second call returns after a first call that loaded the models
C4_Witness ==
    \E t \in Threads :
        /\ op[t] = "ensure_loaded" /\ pc[t] = "returned" /\ last = "ok_io"

\* C5: when the classifier file does not exist the load ends with
\* FileNotFoundError, models_loaded is False and neither handle is set; the
\* explainer artifact has not been looked at.
C5_MissingArtifact ==
    \A t \in Threads :
        (pc[t] = "load_unlock" /\ io[t].clf = "missing") =>
            /\ exc[t].type = "FileNotFoundError"
            /\ models_loaded = "False"
            /\ prediction_model = None
            /\ shap_explainer = None
            /\ io[t].shap = "none"
C5_Witness ==
    \E t \in Threads :
        pc[t] = "raised" /\ op[t] = "ensure_loaded" /\ io[t].clf = "missing"
            /\ exc[t] = MissingArtifact

\* C6, as claimed: when the classifier file exists and joblib and pickle both
\* fail, the load ends with an exception that is not FileNotFoundError,
\* whatever the deserializers raised, models_loaded stays False and the
\* classifier handle stays None.
C6_LoadFailureDistinct ==
    \A t \in Threads :
        (pc[t] = "load_unlock" /\ io[t].clf = "corrupt") =>
            /\ exc[t] # NoExc
            /\ exc[t].type # "FileNotFoundError"
            /\ models_loaded = "False"
            /\ prediction_model = None

\* C7: when the classifier deserializes, the load succeeds and sets
\* models_loaded whatever happens with the explainer; an absent or
\* undeserializable explainer leaves the explainer handle None.
C7_ExplainerNeverBlocks ==
    \A t \in Threads :
        (pc[t] = "load_unlock" /\ io[t].clf = "loaded") =>
            /\ exc[t] = NoExc
            /\ models_loaded = "True"
            /\ (io[t].shap \in {"missing", "corrupt"} => shap_explainer = None)
C7_Witness ==
    \E t \in Threads :
        /\ pc[t] = "load_unlock" /\ io[t].clf = "loaded" /\ io[t].shap = "corrupt"
        /\ models_loaded = "True"

\* C8, as claimed: once models_loaded is True it stays True and the two
\* handles never change again.
C8_WrittenOnce ==
    [][models_loaded = "True" =>
          /\ models_loaded' = "True"
          /\ prediction_model' = prediction_model
          /\ shap_explainer' = shap_explainer]_vars

\* C9: the mapper returns 15 slots and the 15 expected names in order; a slot
\* other than sy_imag holds the input's value for its name, and NaN exactly
\* when the name is absent or null; the sy_imag slot holds the input's
\* sy_imag when that is not null, and else NaN or a value of the input.
InputHas(d, k) == \E i \in 1..Len(d) : d[i][1] = k /\ d[i][2] # None
InputValue(d, k) == d[CHOOSE i \in 1..Len(d) : d[i][1] = k][2]
C9_MapperShape ==
    mapped # NotMapped =>
        /\ Len(mapped[1]) = 15
        /\ mapped[2] = EXPECTED_FEATURES
        /\ \A i \in 1..15 :
              LET name == EXPECTED_FEATURES[i] IN
              /\ InputHas(raw_input, name) => mapped[1][i] = InputValue(raw_input, name)
              /\ (~InputHas(raw_input, name) /\ name # "sy_imag") => mapped[1][i] = NaN
              /\ (mapped[1][i] = NaN /\ name # "sy_imag") => ~InputHas(raw_input, name)
              /\ (~InputHas(raw_input, name) /\ name = "sy_imag") =>
                    \/ mapped[1][i] = NaN
                    \/ \E j \in 1..Len(raw_input) : mapped[1][i] = raw_input[j][2]
\* a sparse input with a null entry and an unknown key has been mapped
C9_Witness ==
    /\ mapped # NotMapped
    /\ raw_input = << <<"pl_orbper", "a">>, <<"sy_imag", None>>, <<"ra", "b">> >>
    /\ mapped[1][1] = "a" /\ mapped[1][2] = NaN /\ mapped[1][15] = NaN

\* C10: with a non-null sy_imag in the input the sy_imag slot holds it
\* whatever aliases are there; with sy_imag absent or null and some non-null
\* sy_*mag alias, the slot holds the value of the first such alias in the
\* input's order.
IsAlias(k) == k \in ALLOWED_EXTRA_FIELDS \cup {"sy_vmag"}
AliasIndexes(d) == {i \in 1..Len(d) : IsAlias(d[i][1]) /\ d[i][2] # None}
FirstAlias(d) == CHOOSE i \in AliasIndexes(d) : \A j \in AliasIndexes(d) : i <= j
C10_SyImagSlot ==
    mapped # NotMapped =>
        /\ InputHas(raw_input, "sy_imag") => mapped[1][15] = InputValue(raw_input, "sy_imag")
        /\ (~InputHas(raw_input, "sy_imag") /\ AliasIndexes(raw_input) # {}) =>
              /\ mapped[1][15] = raw_input[FirstAlias(raw_input)][2]
              /\ mapped[1][15] # NaN
\* two aliases with different values and no sy_imag
C10_Witness ==
    /\ mapped # NotMapped
    /\ raw_input = << <<"sy_kmag", "b">>, <<"sy_imag", None>>, <<"sy_gmag", "a">> >>
    /\ mapped[1][15] = "b"

\* C11, as claimed: two raw inputs that hold the same key-value pairs, with
\* several non-null magnitude-band aliases and no sy_imag, are mapped to the
\* same feature vector.
SameMapping(d, e) == {d[i] : i \in 1..Len(d)} = {e[i] : i \in 1..Len(e)}
BothMapped == mapped # NotMapped /\ mapped_other # NotMapped
C11_Original_EqualMappingsEqualVectors ==
    (/\ BothMapped
     /\ SameMapping(raw_input, raw_other)
     /\ Cardinality(AliasIndexes(raw_input)) >= 2
     /\ ~InputHas(raw_input, "sy_imag")) => mapped[1] = mapped_other[1]
\* C11, amended: two raw inputs that hold the same key-value pairs are mapped
\* to vectors that agree on every slot but sy_imag; they agree on sy_imag too
\* when the input has a non-null sy_imag, or no non-null alias, or when the
\* first non-null alias in insertion order is the same entry in both.  Without
\* a non-null sy_imag the slot holds the value of exactly one non-null alias
\* of the input.
C11_SameOrderSameVector ==
    (BothMapped /\ SameMapping(raw_input, raw_other)) =>
        /\ \A i \in 1..14 : mapped[1][i] = mapped_other[1][i]
        /\ (\/ InputHas(raw_input, "sy_imag")
            \/ AliasIndexes(raw_input) = {}
            \/ raw_input[FirstAlias(raw_input)] = raw_other[FirstAlias(raw_other)])
              => mapped[1] = mapped_other[1]
        /\ (~InputHas(raw_input, "sy_imag") /\ AliasIndexes(raw_input) # {}) =>
              /\ \E i \in AliasIndexes(raw_input) : mapped[1][15] = raw_input[i][2]
              /\ \E i \in AliasIndexes(raw_other) : mapped_other[1][15] = raw_other[i][2]
\* two aliases with different values, the same one first in both inputs
C11_Witness ==
    /\ BothMapped
    /\ raw_input = << <<"pl_orbper", "a">>, <<"sy_gmag", "a">>, <<"sy_kmag", "b">> >>
    /\ raw_other = << <<"sy_gmag", "a">>, <<"sy_kmag", "b">>, <<"pl_orbper", "a">> >>
    /\ mapped[1][15] = "a" /\ mapped[1] = mapped_other[1]

\* C12, as claimed: _compute_attribute_weights never raises, whatever the
\* explainer and the classifier do; when the explainer raises, the result is
\* the importance tier's if the classifier has feature_importances_, and the
\* all-zero mapping otherwise.
Entries(w) == {w[i] : i \in 1..Len(w)}
ZeroMapping(names) == [i \in 1..Len(names) |-> <<names[i], Num(0)>>]
C12_NeverRaises ==
    /\ attribution.stage # "raised"
    /\ (attribution.stage = "returned" /\ attribution.shapOut.kind = "raise") =>
          IF /\ attribution.model # None
             /\ attribution.importances.kind \in {"values", "noniterable"}
          THEN attribution.tier = "importance"
          ELSE /\ attribution.tier = "neutral"
               /\ attribution.weights = ZeroMapping(attribution.feature_names)

\* C13: a call that returns returns the result of one tier: the explainer
\* tier when there is an explainer and its computation raises nothing, also
\* when the classifier has importances; else the importance tier when the
\* classifier has feature_importances_ and the pairing raises nothing; else
\* every name mapped to zero.
Coerced(v) == IF v[1] = "num" THEN v ELSE Num(0)
Smaller(a, b) == IF a < b THEN a ELSE b
\* the row of attributions the explainer tier maps to the names
SelectedRow(shapOut) ==
    IF shapOut.kind = "list"
    THEN shapOut.data[IF Len(shapOut.data) > 1 THEN 2 ELSE 1][1]
    ELSE shapOut.data[1]
ExplainerAnswers(a) ==
    /\ a.explainer # None
    /\ \/ a.shapOut.kind = "array" /\ Len(a.shapOut.data) > 0
       \/ /\ a.shapOut.kind = "list" /\ Len(a.shapOut.data) > 0
          /\ Len(a.shapOut.data[IF Len(a.shapOut.data) > 1 THEN 2 ELSE 1]) > 0
PairingWorks(a) ==
    /\ a.model # None
    /\ a.importances.kind = "values"
    /\ \A i \in 1..Len(a.feature_names) :
          i <= Len(a.importances.vals) => a.importances.vals[i] # BadValue
C13_OneTierInFixedOrder ==
    attribution.stage = "returned" =>
        LET a == attribution
            names == a.feature_names
        IN /\ a.tier = (IF ExplainerAnswers(a) THEN "explainer"
                        ELSE IF PairingWorks(a) THEN "importance" ELSE "neutral")
           /\ a.tier = "explainer" =>
                 Entries(a.weights) =
                    {<<names[i], Coerced(SelectedRow(a.shapOut)[i])>> :
                        i \in 1..Smaller(Len(names), Len(SelectedRow(a.shapOut)))}
           /\ a.tier = "importance" =>
                 /\ Len(a.weights) = Len(names)
                 /\ Entries(a.weights) =
                       {<<names[i], IF i <= Len(a.importances.vals)
                                    THEN a.importances.vals[i] ELSE Num(0)>> :
                           i \in 1..Len(names)}
           /\ a.tier = "neutral" => a.weights = ZeroMapping(names)
\* the explainer tier wins over a classifier that has importances
C13_Witness ==
    /\ attribution.stage = "returned" /\ attribution.tier = "explainer"
    /\ attribution.model = "model" /\ attribution.importances.kind = "values"
    /\ attribution.shapOut = [kind |-> "array", data |-> << <<Num(3), Num(3), Num(3)>> >>]
    /\ Len(attribution.weights) = 3

\* C14, as claimed: a result of the explainer tier or of the importance tier
\* is in rank order, the absolute value of each entry greater than or equal
\* to that of the next, and each entry holds the attribution found at its
\* name's position (not-a-number replaced by zero in the explainer tier).
AbsGe(v, w) == v[1] = "num" /\ w[1] = "num" /\ Abs(v[2]) >= Abs(w[2])
C14_RankOrder ==
    (attribution.stage = "returned" /\ attribution.tier \in {"explainer", "importance"}) =>
        LET a == attribution
            names == a.feature_names
            source(i) == IF a.tier = "explainer" THEN Coerced(SelectedRow(a.shapOut)[i])
                         ELSE IF i <= Len(a.importances.vals) THEN a.importances.vals[i]
                         ELSE Num(0)
        IN /\ \A j \in 1..(Len(a.weights) - 1) : AbsGe(a.weights[j][2], a.weights[j + 1][2])
           /\ \A j \in 1..Len(a.weights) :
                 \E i \in 1..Len(names) : a.weights[j] = <<names[i], source(i)>>

\* C19: in the explainer tier, a list of more than one array has its second
\* array mapped to the names, position by position; a single array, or a list
\* of one array, has that array mapped.
C19_PositiveClassArray ==
    (attribution.stage = "returned" /\ attribution.tier = "explainer") =>
        LET a == attribution
            data == a.shapOut.data
            Maps(row) ==
                LET n == Smaller(Len(row), Len(a.feature_names))
                IN /\ Len(a.weights) = n
                   /\ \A i \in 1..n :
                         \E j \in 1..n : a.weights[j] = <<a.feature_names[i], Coerced(row[i])>>
        IN /\ (a.shapOut.kind = "list" /\ Len(data) > 1) =>
                 Len(data[2]) > 0 /\ Maps(data[2][1])
           /\ (a.shapOut.kind = "list" /\ Len(data) <= 1) =>
                 Len(data) = 1 /\ Len(data[1]) > 0 /\ Maps(data[1][1])
           /\ a.shapOut.kind # "list" =>
                 a.shapOut.kind = "array" /\ Len(data) > 0 /\ Maps(data[1])
\* one array per class: the second one is mapped, largest first
C19_Witness ==
    /\ attribution.stage = "returned" /\ attribution.tier = "explainer"
    /\ attribution.shapOut =
          [kind |-> "list", data |-> << <<NegativeRow>>, << <<Num(1), Num(-2)>> >> >>]
    /\ attribution.weights = << <<"pl_orbsmax", Num(-2)>>, <<"pl_orbper", Num(1)>> >>

\* C15, as claimed: a predict() call on an unloaded instance that finds the
\* classifier file missing ends with the Missing-Artifact exception, one that
\* finds it undeserializable with the Load-Failure exception, never with
\* "Prediction error", and the features are not mapped nor the classifier
\* invoked.
C15_LoaderConditionsPropagate ==
    \A t \in Threads :
        (pc[t] = "raised" /\ op[t] = "predict" /\ io[t].clf \in {"missing", "corrupt"}) =>
            /\ io[t].clf = "missing" => exc[t] = MissingArtifact
            /\ io[t].clf = "corrupt" => exc[t] = LoadFailure
            /\ exc[t].msg # "Prediction error"
            /\ out[t].stage = "none"

\* C16: a predict() call whose models are loaded and which raises, raises
\* Exception("Prediction error: <cause>"), whether the classifier raised, its
\* result had fewer than two entries or the attribution raised.
C16_PredictionFailureOnly ==
    \A t \in Threads :
        (pc[t] = "raised" /\ op[t] = "predict" /\ io[t].clf \in {"none", "loaded"}) =>
            /\ exc[t].type = "Exception"
            /\ exc[t].msg = "Prediction error"
            /\ exc[t].cause \in {ClassifierError.msg, IndexError.msg, LookupFailure.msg}
            /\ (exc[t].cause = LookupFailure.msg <=> out[t].stage = "proba")
\* the classifier returned a single probability
C16_Witness ==
    \E t \in Threads :
        /\ pc[t] = "raised" /\ op[t] = "predict" /\ models_loaded = "True"
        /\ exc[t].msg = "Prediction error" /\ exc[t].cause = IndexError.msg
        /\ out[t].stage = "mapped"

\* C17, as claimed: a predict() call that finds models_loaded True and the
\* classifier handle None raises an exception that differs from the generic
\* "Prediction error" one, without invoking the classifier or the attribution.
C17_InvariantViolationDistinct ==
    [][\A t \in Threads :
          (/\ pc[t] = "pred_map" /\ pc'[t] # "pred_map"
           /\ models_loaded = "True" /\ prediction_model = None) =>
              /\ pc'[t] = "raised"
              /\ out'[t] = out[t]
              /\ ~(exc'[t].type = "Exception" /\ exc'[t].msg = "Prediction error")]_vars

\* C18: with get_classifier() and is_loaded() calls only, models_loaded is
\* never True, no handle is ever set to an object, no artifact is read, every
\* caller that holds the instance finds models_loaded False and both handles
\* None, and is_loaded() returns False.
C18_ConstructionNeverLoads ==
    /\ models_loaded \in {"unset", "False"}
    /\ prediction_model \in {"unset", None}
    /\ shap_explainer \in {"unset", None}
    /\ clfDeserialized = 0 /\ shapDeserialized = 0
    /\ \A t \in Threads :
          /\ io[t] = NoIo
          /\ (pc[t] = "ready" /\ self[t] # 0) =>
                models_loaded = "False" /\ prediction_model = None /\ shap_explainer = None
          /\ op[t] = "is_loaded" =>
                pc[t] = "returned" /\ out[t].stage = "is_loaded" /\ out[t].value = "False"
\* is_loaded() has returned to one thread while another constructor call is
\* still inside __init__
C18_Witness ==
    \E t, u \in Threads :
        /\ op[t] = "is_loaded" /\ pc[t] = "returned" /\ out[t].value = "False"
        /\ pc[u] \in {"init_79", "init_80", "init_81", "init_82"}

\* C20, as claimed: two raw inputs that differ only in entries of
\* ALLOWED_EXTRA_FIELDS (one added, removed or changed) are mapped to the same
\* feature vector.
NotExtra(d) == SelectSeq(d, LAMBDA e : e[1] \notin ALLOWED_EXTRA_FIELDS)
DiffersOnlyInExtras(d, e) == d # e /\ NotExtra(d) = NotExtra(e)
C23_LoadedImpliesHandle ==
    /\ models_loaded = "True" => prediction_model = "model"
    /\ \A t \in Threads :
          (pc[t] = "raised" /\ op[t] = "predict" /\ exc[t].msg = "Prediction error") =>
              exc[t].cause # ModelNotLoaded.msg

\* C25, as claimed: a thread that get_classifier() has returned the instance
\* to finds _initialized True and the flag, both handles and both paths set,
\* so that none of its later calls reads an unset attribute.
C25_HandedOutInitialized ==
    \A t \in Threads :
        (self[t] # 0 /\ pc[t] \notin {"idle", "new_check", "new_lock", "new_create",
                                      "new_setinit", "new_unlock", "new_return",
                                      "init_check", "init_79", "init_80", "init_81",
                                      "init_82", "init_86", "init_87"}
                     /\ op[t] # "get_classifier") =>
            /\ initialized = "True"
            /\ models_loaded # "unset"
            /\ prediction_model # "unset"
            /\ shap_explainer # "unset"
            /\ prediction_model_path # "unset"
            /\ shap_explainer_path # "unset"

\* C24, as claimed: a mapping that _compute_attribute_weights returns for a
\* non-empty list of feature names is not empty and has exactly one entry for
\* each of the names, in whichever tier, also when the explainer or the
\* classifier gives fewer values than there are names.
C24_OneEntryPerName ==
    (attribution.stage = "returned" /\ Len(attribution.feature_names) > 0) =>
        /\ Len(attribution.weights) > 0
        /\ Len(attribution.weights) = Len(attribution.feature_names)
        /\ {attribution.weights[i][1] : i \in 1..Len(attribution.weights)} =
              {attribution.feature_names[i] : i \in 1..Len(attribution.feature_names)}

InCall(t) == pc[t] \notin {"idle", "ready", "returned", "raised"}
WaiterEnters(t) ==
    (pc[t] = "load_lock" /\ pc'[t] # "load_lock") =>
        IF models_loaded = "True"
        THEN /\ pc'[t] = "load_unlock"
             /\ exc'[t] = NoExc
             /\ io'[t] = NoIo
             /\ clfDeserialized' = clfDeserialized
             /\ shapDeserialized' = shapDeserialized
        ELSE pc'[t] = "load_clf" /\ lock' = t
CallsEndAndLockFreed ==
    /\ \A t \in Threads : InCall(t) ~> (pc[t] \in {"returned", "raised"})
    /\ (lock # 0) ~> (lock = 0)
====
